---- MODULE Spec2Model ----
(***************************************************************************)
(* A model of music_cover_scan.py: the walk over album directories, the    *)
(* embedded-art probe, the tag reader, the image sniffer, the catalog      *)
(* client's candidate selection, and the cover.jpg write policy.           *)
(*                                                                         *)
(* Text (file names, tag values, query strings) is a sequence of           *)
(* one-character strings; bytes are sequences of numbers 0..255.           *)
(***************************************************************************)
EXTENDS Integers, Sequences, FiniteSets, TLC

(***************************************************************************)
(* Bounds of the model.                                                    *)
(***************************************************************************)
\* number of directories os.walk yields under the root
NumDirs == 2
\* number of invocations of the program, one after the other, on the same tree
MaxRuns == 2
\* longest search-result list the catalog returns to fetch_itunes_artwork_bytes alone
MaxResults == 2
\* most entries of a directory given to pick_source_with_embedded_art alone
MaxListing == 3

(***************************************************************************)
(* Text.                                                                   *)
(***************************************************************************)
\* code point of a character (ord)
Code(c) ==
    CASE c = " " -> 32
      [] c = "." -> 46
      [] c = "1" -> 49
      [] c = "2" -> 50
      [] c = "3" -> 51
      [] c = "4" -> 52
      [] c = "A" -> 65
      [] c = "B" -> 66
      [] c = "M" -> 77
      [] c = "P" -> 80
      [] c = "T" -> 84
      [] c = "U" -> 85
      [] c = "a" -> 97
      [] c = "b" -> 98
      [] c = "c" -> 99
      [] c = "d" -> 100
      [] c = "e" -> 101
      [] c = "f" -> 102
      [] c = "g" -> 103
      [] c = "i" -> 105
      [] c = "k" -> 107
      [] c = "l" -> 108
      [] c = "m" -> 109
      [] c = "n" -> 110
      [] c = "o" -> 111
      [] c = "p" -> 112
      [] c = "r" -> 114
      [] c = "s" -> 115
      [] c = "t" -> 116
      [] c = "u" -> 117
      [] c = "v" -> 118
      [] c = "w" -> 119
      [] c = "x" -> 120
      [] OTHER -> 0

\* str.lower() on one character
LowerChar(c) ==
    CASE c = "A" -> "a"
      [] c = "B" -> "b"
      [] c = "M" -> "m"
      [] c = "P" -> "p"
      [] c = "T" -> "t"
      [] c = "U" -> "u"
      [] OTHER -> c

\* str.lower()
Lower(s) == [i \in 1..Len(s) |-> LowerChar(s[i])]

\* str.strip(): leading and trailing blanks removed
Strip(s) ==
    LET nonblank == {i \in 1..Len(s) : s[i] # " "}
    IN  IF nonblank = {} THEN <<>>
        ELSE LET lo == CHOOSE i \in nonblank : \A j \in nonblank : i <= j
                 hi == CHOOSE i \in nonblank : \A j \in nonblank : j <= i
             IN  SubSeq(s, lo, hi)

\* `sub in s` on str
Contains(s, sub) ==
    \E i \in 0..(Len(s) - Len(sub)) : SubSeq(s, i + 1, i + Len(sub)) = sub

\* a < b on str: lexicographic by code point
StrLess(a, b) ==
    LET n == IF Len(a) < Len(b) THEN Len(a) ELSE Len(b)
        diff == {i \in 1..n : a[i] # b[i]}
    IN  IF diff = {} THEN Len(a) < Len(b)
        ELSE LET i == CHOOSE k \in diff : \A j \in diff : k <= j
             IN  Code(a[i]) < Code(b[i])

\* PurePath.suffix: the name from its last dot, when that dot is neither the
\* first nor the last character
Suffix(name) ==
    LET dots == {i \in 1..Len(name) : name[i] = "."}
    IN  IF dots = {} THEN <<>>
        ELSE LET i == CHOOSE k \in dots : \A j \in dots : j <= k
             IN  IF 1 < i /\ i < Len(name) THEN SubSeq(name, i, Len(name)) ELSE <<>>

MUSIC_EXTENSIONS ==
    { <<".", "m", "p", "3">>, <<".", "m", "4", "a">>, <<".", "m", "p", "4">>,
      <<".", "f", "l", "a", "c">>, <<".", "o", "g", "g">>, <<".", "o", "g", "a">>,
      <<".", "o", "p", "u", "s">>, <<".", "w", "m", "a">>, <<".", "w", "a", "v">>,
      <<".", "a", "i", "f", "f">>, <<".", "a", "i", "f">>, <<".", "a", "p", "e">>,
      <<".", "m", "k", "a">> }

(***************************************************************************)
(* Image Sniffer.                                                          *)
(***************************************************************************)
\* bytes.startswith
StartsWith(data, prefix) ==
    Len(data) >= Len(prefix) /\ SubSeq(data, 1, Len(prefix)) = prefix

looks_like_image(data) ==
    IF data = <<>> \/ Len(data) < 12 THEN FALSE
    ELSE \/ StartsWith(data, <<255, 216, 255>>)
         \/ StartsWith(data, <<137, 80, 78, 71, 13, 10, 26, 10>>)
         \/ StartsWith(data, <<71, 73, 70, 56, 55, 97>>)
         \/ StartsWith(data, <<71, 73, 70, 56, 57, 97>>)
         \/ StartsWith(data, <<66, 77>>)
         \/ (SubSeq(data, 1, 4) = <<82, 73, 70, 70>> /\ SubSeq(data, 9, 12) = <<87, 69, 66, 80>>)

\* payloads used as inputs
Jpeg1 == <<255, 216, 255, 224, 0, 16, 74, 70, 73, 70, 0, 1>>
Png2 == <<137, 80, 78, 71, 13, 10, 26, 10, 0, 0, 0, 13>>
Gif3 == <<71, 73, 70, 56, 57, 97, 1, 0, 1, 0, 128, 0>>
JpegShort == <<255, 216, 255>>
Junk == <<0, 1, 2, 3, 4, 5, 6, 7, 8, 9, 10, 11>>
OldCover == <<255, 216, 255, 225, 9, 9, 9, 9, 9, 9, 9, 9>>

(***************************************************************************)
(* Tag Reader.  What mutagen.File gives for one audio file is a record:    *)
(*   open   "raise" (File() throws), "none" (File() returns None), "ok"    *)
(*   tags   whether audio.tags is truthy                                   *)
(*   apic, tpics, covr, fpics   what each tag-access step meets: a record  *)
(*          [k, d] with k = "absent", "raise" (the step throws) or "data"  *)
(*          (d the picture's bytes, possibly empty); covr may also be      *)
(*          "nonbytes" (its first element is no bytes object)              *)
(*   album, albumartist, artist   the easy-tag text values, <<>> if absent *)
(* A result of the reader is [k, d]: k = "raise" (an exception leaves the  *)
(* function), "none" (None returned) or "data" (bytes d returned).         *)
(***************************************************************************)
Absent == [k |-> "absent", d |-> <<>>]
Throws == [k |-> "raise", d |-> <<>>]
Pic(d) == [k |-> "data", d |-> d]

RetNone == [k |-> "none", d |-> <<>>]
RetRaise == [k |-> "raise", d |-> <<>>]
RetData(d) == [k |-> "data", d |-> d]

\* lines 206-214: pictures on the audio object itself, outside any try
FilePictures(a) ==
    IF a.fpics.k = "raise" THEN RetRaise
    ELSE IF a.fpics.k = "data" /\ a.fpics.d # <<>> THEN RetData(a.fpics.d)
    ELSE RetNone

\* lines 196-201: the covr atom, outside any try
CovrAtom(a) ==
    IF a.covr.k = "raise" THEN RetRaise
    ELSE IF a.covr.k = "data" THEN RetData(a.covr.d)
    ELSE FilePictures(a)

\* lines 188-194: tags.pictures, outside any try
TagPictures(a) ==
    IF a.tpics.k = "raise" THEN RetRaise
    ELSE IF a.tpics.k = "data" /\ a.tpics.d # <<>> THEN RetData(a.tpics.d)
    ELSE CovrAtom(a)

\* lines 178-186: the APIC loop, inside try/except Exception: pass
ApicFrames(a) ==
    IF a.apic.k = "data" /\ a.apic.d # <<>> THEN RetData(a.apic.d)
    ELSE TagPictures(a)

extract_embedded_image_bytes(a) ==
    IF a.open = "raise" THEN RetNone
    ELSE IF a.open = "none" THEN RetNone
    ELSE IF a.tags THEN ApicFrames(a)
    ELSE FilePictures(a)

\* audio files used as inputs
AudioBase ==
    [open |-> "ok", tags |-> TRUE, apic |-> Absent, tpics |-> Absent, covr |-> Absent,
     fpics |-> Absent, album |-> <<>>, albumartist |-> <<>>, artist |-> <<>>]
AudioNoArt == [AudioBase EXCEPT !.album = <<" ", "A", "b">>, !.artist = <<"B">>]
AudioUnreadable == [AudioBase EXCEPT !.open = "raise"]
AudioApic(d) == [AudioBase EXCEPT !.apic = Pic(d)]
AudioCovr(d) == [AudioBase EXCEPT !.covr = Pic(d), !.album = <<"a">>]
AudioFlac(d) == [AudioBase EXCEPT !.tags = FALSE, !.fpics = Pic(d)]
AudioApicThrows(d) == [AudioBase EXCEPT !.apic = Throws, !.tpics = Pic(d)]
AudioTagPicturesThrow == [AudioBase EXCEPT !.tpics = Throws]

(***************************************************************************)
(* Directory entries and the embedded-art probe.  A directory entry is     *)
(* [name, isFile, audio]; a listing is the sequence Path.iterdir() yields, *)
(* in the order the filesystem gives.                                      *)
(***************************************************************************)
Entry(name, audio) == [name |-> name, isFile |-> TRUE, audio |-> audio]
NoEntry == [name |-> <<>>, isFile |-> FALSE, audio |-> AudioBase]

IsAudioFile(e, extensions) == e.isFile /\ Lower(Suffix(e.name)) \in extensions

\* [p for p in dir_path.iterdir() if p.is_file() and p.suffix.lower() in extensions]
AudioEntries(listing, extensions) ==
    SelectSeq(listing, LAMBDA e : IsAudioFile(e, extensions))

\* one step of sorted(..., key=lambda p: p.name.lower()): x goes after every
\* element whose key is not greater than its own, so equal keys keep the order
\* they came in
InsertByName(sorted, x) ==
    LET before == {i \in 1..Len(sorted) : ~StrLess(Lower(x.name), Lower(sorted[i].name))}
        n == Cardinality(before)
    IN  SubSeq(sorted, 1, n) \o <<x>> \o SubSeq(sorted, n + 1, Len(sorted))

RECURSIVE SortedByName(_)
SortedByName(s) ==
    IF s = <<>> THEN <<>>
    ELSE InsertByName(SortedByName(SubSeq(s, 1, Len(s) - 1)), s[Len(s)])

iter_audio_files(listing, extensions) == SortedByName(AudioEntries(listing, extensions))

\* the for loop of pick_source_with_embedded_art over the sorted files, from index i
RECURSIVE ProbeFrom(_, _)
ProbeFrom(files, i) ==
    IF i > Len(files) THEN [k |-> "none", f |-> NoEntry]
    ELSE LET data == extract_embedded_image_bytes(files[i].audio)
         IN  IF data.k = "raise" THEN [k |-> "raise", f |-> NoEntry]
             ELSE IF data.k = "data" /\ data.d # <<>> /\ looks_like_image(data.d)
                  THEN [k |-> "file", f |-> files[i]]
             ELSE ProbeFrom(files, i + 1)

pick_source_with_embedded_art(listing, extensions) ==
    ProbeFrom(SortedByName(AudioEntries(listing, extensions)), 1)

\* any(child.is_file() and child.suffix.lower() in extensions for child in path.iterdir())
is_album_dir(listing, extensions) ==
    {i \in 1..Len(listing) : IsAudioFile(listing[i], extensions)} # {}

(***************************************************************************)
(* AlbumIdentity.                                                          *)
(***************************************************************************)
UnknownAlbum == <<"U", "n", "k", "n", "o", "w", "n", " ", "A", "l", "b", "u", "m">>
UnknownArtist == <<"U", "n", "k", "n", "o", "w", "n", " ", "A", "r", "t", "i", "s", "t">>

\* first_tag over text values: the first name whose stripped value is non-empty
RECURSIVE first_tag(_)
first_tag(values) ==
    IF values = <<>> THEN <<>>
    ELSE IF Strip(values[1]) # <<>> THEN Strip(values[1])
    ELSE first_tag(Tail(values))

\* (album, artist), <<>> standing for None
extract_album_artist(a) ==
    IF a.open # "ok" \/ ~a.tags THEN [album |-> <<>>, artist |-> <<>>]
    ELSE [album |-> first_tag(<<a.album>>), artist |-> first_tag(<<a.albumartist, a.artist>>)]

Or(s, default) == IF s # <<>> THEN s ELSE default

ParentArtist(dir) == IF ~dir.isRoot THEN Strip(dir.parent) ELSE UnknownArtist

RECURSIVE IdentityFrom(_, _, _)
IdentityFrom(dir, files, i) ==
    IF i > Len(files)
    THEN [album |-> Or(Strip(dir.name), UnknownAlbum),
          artist |-> Or(ParentArtist(dir), UnknownArtist)]
    ELSE LET t == extract_album_artist(files[i].audio)
         IN  IF t.album # <<>> /\ t.artist # <<>> THEN t
             ELSE IF t.album # <<>>
                  THEN [album |-> t.album, artist |-> Or(ParentArtist(dir), UnknownArtist)]
             ELSE IdentityFrom(dir, files, i + 1)

album_artist_from_dir(dir, extensions) ==
    IdentityFrom(dir, iter_audio_files(dir.listing, extensions), 1)

(***************************************************************************)
(* Catalog Client.  A search result item is [dict, url, collectionName,    *)
(* artistName]: dict says whether the item is a JSON object, url is the    *)
(* artworkUrl100 value as a sequence of tokens (<<>> when missing).  A     *)
(* catalog is [search, isList, results, get]: search = "fail" when the     *)
(* search request or its parsing throws, isList whether the payload's      *)
(* results is a list, get the image server: a function from the URLs it    *)
(* serves to the bytes it answers; a GET of any other URL throws.          *)
(***************************************************************************)
Item(url, album, artist) ==
    [dict |-> TRUE, url |-> url, collectionName |-> album, artistName |-> artist]

\* SelectFrom with line 340's guard dropped: every non-matching result with a
\* URL replaces the fallback
RECURSIVE SelectFrom_KeepsLast(_, _, _, _, _)
SelectFrom_KeepsLast(results, i, preferred_url, lowered_album, lowered_artist) ==
    IF i > Len(results) THEN preferred_url
    ELSE LET item == results[i]
             item_album == Strip(Lower(item.collectionName))
             item_artist == Strip(Lower(item.artistName))
         IN  IF ~item.dict \/ item.url = <<>> THEN
                 SelectFrom_KeepsLast(results, i + 1, preferred_url, lowered_album,
                                      lowered_artist)
             ELSE IF /\ lowered_album # <<>>
                     /\ Contains(item_album, lowered_album)
                     /\ (lowered_artist = <<>> \/ Contains(item_artist, lowered_artist))
                  THEN item.url
             ELSE SelectFrom_KeepsLast(results, i + 1, item.url, lowered_album,
                                       lowered_artist)

\* lines 329-341: the loop over the results, from index i, preferred_url so far
\* (<<>> for None)
RECURSIVE SelectFrom(_, _, _, _, _)
SelectFrom(results, i, preferred_url, lowered_album, lowered_artist) ==
    IF i > Len(results) THEN preferred_url
    ELSE LET item == results[i]
             item_album == Strip(Lower(item.collectionName))
             item_artist == Strip(Lower(item.artistName))
         IN  IF ~item.dict THEN
                 SelectFrom(results, i + 1, preferred_url, lowered_album, lowered_artist)
             ELSE IF item.url = <<>> THEN
                 SelectFrom(results, i + 1, preferred_url, lowered_album, lowered_artist)
             ELSE IF /\ lowered_album # <<>>
                     /\ Contains(item_album, lowered_album)
                     /\ (lowered_artist = <<>> \/ Contains(item_artist, lowered_artist))
                  THEN item.url
             ELSE SelectFrom(results, i + 1,
                             IF preferred_url = <<>> THEN item.url ELSE preferred_url,
                             lowered_album, lowered_artist)

\* lines 326-341
PreferredUrl(album, artist, results) ==
    SelectFrom(results, 1, <<>>, Strip(Lower(album)), Strip(Lower(artist)))

\* str.replace("100x100bb", "1200x1200bb") on a URL given as tokens
HighRes(url) ==
    [i \in 1..Len(url) |-> IF url[i] = "100x100bb" THEN "1200x1200bb" ELSE url[i]]

\* the result and the requests issued, in order
fetch_itunes_artwork_bytes(album, artist, cat) ==
    LET term == Strip(artist \o <<" ">> \o album)
        search == [kind |-> "search", term |-> term, url |-> <<>>]
        preferred_url == PreferredUrl(album, artist, cat.results)
        high_res_url == HighRes(preferred_url)
        get == [kind |-> "get", term |-> <<>>, url |-> high_res_url]
    IN  IF cat.search = "fail" THEN [ret |-> RetNone, chosen |-> <<>>, reqs |-> <<search>>]
        ELSE IF ~cat.isList THEN [ret |-> RetNone, chosen |-> <<>>, reqs |-> <<search>>]
        ELSE IF preferred_url = <<>> THEN [ret |-> RetNone, chosen |-> <<>>, reqs |-> <<search>>]
        ELSE IF high_res_url \notin DOMAIN cat.get
             THEN [ret |-> RetNone, chosen |-> preferred_url, reqs |-> <<search, get>>]
        ELSE LET data == cat.get[high_res_url]
             IN  [ret |-> IF looks_like_image(data) THEN RetData(data) ELSE RetNone,
                  chosen |-> preferred_url, reqs |-> <<search, get>>]

(***************************************************************************)
(* The library on disk and the external catalog.                           *)
(* A directory on disk is [cover, album_jpg, listing]: cover is cover.jpg, *)
(* [k, d] with k = "absent" or "file" (d its bytes); album_jpg is "absent" *)
(* or "file"; listing is the index in Listings of what iterdir() yields    *)
(* for the other entries.  The program never changes those, so the state   *)
(* holds the index and PathOf gives the directory as the code sees it.     *)
(***************************************************************************)
Dirs == 1..NumDirs

NoCover == [k |-> "absent", d |-> <<>>]
CoverFile(d) == [k |-> "file", d |-> d]

NotesTxt == <<"n", "o", "t", "e", "s", ".", "t", "x", "t">>
Track(c, ext) == <<"t", "r", "a", "c", "k", c>> \o ext

\* only files that are no audio: not an album directory
ListingNoAudio == <<Entry(NotesTxt, AudioBase)>>
\* track2.mp3 and Track3.MP3 carry different images, track1.mp3 none
ListingWithArt ==
    << Entry(Track("2", <<".", "m", "p", "3">>), AudioApic(Jpeg1)),
       Entry(NotesTxt, AudioApic(Gif3)),
       Entry(<<"T", "r", "a", "c", "k", "3", ".", "M", "P", "3">>, AudioCovr(Png2)),
       Entry(Track("1", <<".", "m", "p", "3">>), AudioNoArt) >>
\* an unreadable file, one whose bytes are no image, one whose APIC loop throws
ListingNoArt ==
    << Entry(<<"b", ".", "f", "l", "a", "c">>, AudioUnreadable),
       Entry(<<"a", ".", "m", "p", "3">>, AudioApic(Junk)),
       Entry(<<"c", ".", "o", "g", "g">>, AudioApicThrows(JpegShort)) >>
\* a file whose tags.pictures throws
ListingThrows ==
    << Entry(<<"a", ".", "m", "p", "3">>, AudioTagPicturesThrow),
       Entry(<<"b", ".", "m", "p", "3">>, AudioApic(Jpeg1)) >>

Listings == <<ListingNoAudio, ListingWithArt, ListingNoArt, ListingThrows>>

DirName(i) == IF i = 1 THEN <<"M", "u", "s", "i", "c">> ELSE <<" ", "A", "b", " ">>
DirParent(i) == IF i = 1 THEN <<>> ELSE <<"M", "u", "s", "i", "c">>

\* a directory with audio files has or lacks cover.jpg and album.jpg; one without
\* audio files (the library root, an artist folder) holds neither
DirStates ==
    { d \in [cover : {NoCover, CoverFile(OldCover)}, album_jpg : {"absent", "file"},
             listing : 1..Len(Listings)] :
        d.listing = 1 => (d.cover = NoCover /\ d.album_jpg = "absent") }

\* directory i as the code sees it: its path's name and parent, and its entries
PathOf(i, d) ==
    [name |-> DirName(i), parent |-> DirParent(i), isRoot |-> FALSE,
     cover |-> d.cover, album_jpg |-> d.album_jpg, listing |-> Listings[d.listing]]

Url100(id) == <<"https://is1.mzstatic.com/", id, "/", "100x100bb", ".jpg">>

\* the catalogs a query may meet
CatalogDown == [search |-> "fail", isList |-> TRUE, results |-> <<>>, get |-> <<>>]
CatalogEmpty == [search |-> "ok", isList |-> TRUE, results |-> <<>>, get |-> <<>>]
CatalogHit ==
    [search |-> "ok", isList |-> TRUE,
     results |-> << Item(<<>>, <<"A", "b">>, <<"M", "u", "s", "i", "c">>),
                    Item(Url100("x"), <<"B">>, <<"B">>),
                    Item(Url100("y"), <<"a", "b">>, <<"M", "u", "s", "i", "c">>) >>,
     get |-> (HighRes(Url100("x")) :> Gif3) @@ (HighRes(Url100("y")) :> Png2)]
CatalogBadImage ==
    [search |-> "ok", isList |-> TRUE,
     results |-> << Item(Url100("x"), <<"B">>, <<"B">>) >>,
     get |-> (HighRes(Url100("x")) :> Junk)]
Catalogs == <<CatalogDown, CatalogEmpty, CatalogHit, CatalogBadImage>>

\* what Path.write_bytes may do: write the file, fail to open it, or fail after
\* having created it
WriteOutcomes == {"ok", "open_fail", "write_fail"}

(***************************************************************************)
(* State.                                                                  *)
(***************************************************************************)
VARIABLES
    fs,           \* the library: directory -> its state on disk
    catalogOf,    \* directory -> index in Catalogs of the catalog its query met (0: none yet)
    argv,         \* the parsed command line of the current invocation
    pc,           \* "shell", "main", "walking", "done", "usage", "badroot", "aborted"
    exit_code,    \* the process's exit status, -1 while it runs
    idx,          \* position of the walk
    stats,        \* ScanStats
    missing_both, \* the list process_album_dirs collects
    printed,      \* what was printed: the MISSING lines and the final listing
    run,          \* number of the current invocation
    fs0,          \* the library as it was when the current invocation started
    visit,        \* directory -> what this invocation did there
    prev,         \* the previous invocation: its argv, stats, visit
    sel,          \* the catalog client run alone: its inputs and its result
    probe         \* the probe run alone: two listings of one directory and the picks

vars == <<fs, catalogOf, argv, pc, exit_code, idx, stats, missing_both, printed, run,
          fs0, visit, prev, sel, probe>>

walkVars == <<fs, catalogOf, argv, pc, exit_code, idx, stats, missing_both, printed, run,
              fs0, visit, prev>>

ZeroStats ==
    [album_dirs_scanned |-> 0, album_dirs_with_cover_jpg |-> 0,
     album_dirs_missing_cover_jpg |-> 0, covers_extracted |-> 0,
     extraction_failures |-> 0, artwork_downloaded |-> 0, download_failures |-> 0]

NoArgs ==
    [scan_missing_cover |-> FALSE, extract |-> FALSE, report_missing_artwork |-> FALSE,
     download_missing_artwork |-> FALSE, dry_run |-> FALSE]

Args ==
    [scan_missing_cover : BOOLEAN, extract : BOOLEAN, report_missing_artwork : BOOLEAN,
     download_missing_artwork : BOOLEAN, dry_run : BOOLEAN]

\* per directory and invocation: seen is "unvisited", "skipped" (no album
\* directory), "with_cover", "missing_cover" or "crashed"; nwrites counts the
\* calls of write_bytes, wrote is the last one's outcome ("none" when there was
\* none); dry_writes counts the calls of write_cover_jpg under dry_run; nqueries
\* counts the calls of fetch_itunes_artwork_bytes
NoVisit == [seen |-> "unvisited", nwrites |-> 0, wrote |-> "none", nqueries |-> 0,
            dry_writes |-> 0]

NoPrint == [scan |-> <<>>, listed |-> FALSE, listing |-> <<>>, summary |-> FALSE]

NoPrev == [run |-> 0, argv |-> NoArgs, stats |-> ZeroStats,
           visit |-> [d \in Dirs |-> NoVisit], pc |-> "shell"]

NoSel == [phase |-> "off", album |-> <<>>, artist |-> <<>>, results |-> <<>>,
          chosen |-> <<>>, reqs |-> <<>>]
NoProbe == [phase |-> "off", listing1 |-> <<>>, listing2 |-> <<>>,
            pick1 |-> NoEntry, pick2 |-> NoEntry]

(***************************************************************************)
(* The write policy and the per-directory steps of process_album_dirs.     *)
(***************************************************************************)
\* cover_jpg.is_file()
HasCover(d) == d.cover.k = "file"

\* write_cover_jpg without the dry-run branch
write_cover_jpg_IgnoresDryRun(cover, data, dry_run, w) ==
    IF w = "ok" THEN [ok |-> TRUE, cover |-> CoverFile(data), called |-> TRUE]
    ELSE IF w = "open_fail" THEN [ok |-> FALSE, cover |-> cover, called |-> TRUE]
    ELSE [ok |-> FALSE, cover |-> CoverFile(<<>>), called |-> TRUE]

\* write_cover_jpg whose dry-run branch returns False
write_cover_jpg_DryRunFails(cover, data, dry_run, w) ==
    IF dry_run THEN [ok |-> FALSE, cover |-> cover, called |-> FALSE]
    ELSE IF w = "ok" THEN [ok |-> TRUE, cover |-> CoverFile(data), called |-> TRUE]
    ELSE IF w = "open_fail" THEN [ok |-> FALSE, cover |-> cover, called |-> TRUE]
    ELSE [ok |-> FALSE, cover |-> CoverFile(<<>>), called |-> TRUE]

\* write_cover_jpg: [ok, cover, called]; w is what Path.write_bytes does, called
\* whether it was called at all
write_cover_jpg(cover, data, dry_run, w) ==
    IF dry_run THEN [ok |-> TRUE, cover |-> cover, called |-> FALSE]
    ELSE IF w = "ok" THEN [ok |-> TRUE, cover |-> CoverFile(data), called |-> TRUE]
    ELSE IF w = "open_fail" THEN [ok |-> FALSE, cover |-> cover, called |-> TRUE]
    ELSE [ok |-> FALSE, cover |-> CoverFile(<<>>), called |-> TRUE]

\* line 392
NeedsProbe(actions) ==
    actions.extract \/ actions.report_missing_artwork \/ actions.download_missing_artwork

\* line 397 without `and not has_cover`
ShouldExtract_IgnoresCover(actions, has_cover) == actions.extract

\* line 397
ShouldExtract(actions, has_cover) == actions.extract /\ ~has_cover

\* lines 409, 414 with `is None` for `is not None`
HasEmbedded_Inverted(embedded_source, embedded_data) ==
    embedded_source.k = "file" /\ embedded_data.k = "none"

\* lines 409, 414
HasEmbedded(embedded_source, embedded_data) ==
    embedded_source.k = "file" /\ embedded_data.k # "none"

\* lines 408-410 without `and not has_embedded`
ReportsMissing_IgnoresEmbedded(actions, has_cover, has_embedded) ==
    actions.report_missing_artwork /\ ~has_cover

\* lines 408-410
ReportsMissing(actions, has_cover, has_embedded) ==
    actions.report_missing_artwork /\ ~has_cover /\ ~has_embedded

\* lines 413-416 without `and not has_album_jpg`
ShouldDownload_IgnoresAlbumJpg(actions, has_cover, has_album_jpg, has_embedded) ==
    actions.download_missing_artwork /\ ~has_cover /\ ~has_embedded

\* lines 413-416
ShouldDownload(actions, has_cover, has_album_jpg, has_embedded) ==
    actions.download_missing_artwork /\ ~has_cover /\ ~has_album_jpg /\ ~has_embedded

Bump(st, counter) == [st EXCEPT ![counter] = @ + 1]

\* what one write_cover_jpg call adds to the directory's record
Written(v, r, w, dry_run) ==
    [v EXCEPT !.nwrites = @ + (IF r.called THEN 1 ELSE 0),
              !.wrote = IF r.called THEN w ELSE @,
              !.dry_writes = @ + (IF dry_run THEN 1 ELSE 0)]

\* lines 397-406 without the else of line 402: a failed write is not counted
ExtractStep_DropsWriteFailure(s, actions, has_cover, embedded_data, w) ==
    IF ~ShouldExtract(actions, has_cover) THEN s
    ELSE IF embedded_data.k = "data" /\ embedded_data.d # <<>>
    THEN LET r == write_cover_jpg(s.cover, embedded_data.d, actions.dry_run, w)
         IN  [cover |-> r.cover,
              stats |-> IF r.ok THEN Bump(s.stats, "covers_extracted") ELSE s.stats,
              v |-> Written(s.v, r, w, actions.dry_run)]
    ELSE [s EXCEPT !.stats = Bump(s.stats, "extraction_failures")]

\* lines 397-406 on [cover, stats, v]
ExtractStep(s, actions, has_cover, embedded_data, w) ==
    IF ~ShouldExtract(actions, has_cover) THEN s
    ELSE IF embedded_data.k = "data" /\ embedded_data.d # <<>>
    THEN LET r == write_cover_jpg(s.cover, embedded_data.d, actions.dry_run, w)
         IN  [cover |-> r.cover,
              stats |-> Bump(s.stats, IF r.ok THEN "covers_extracted" ELSE "extraction_failures"),
              v |-> Written(s.v, r, w, actions.dry_run)]
    ELSE [s EXCEPT !.stats = Bump(s.stats, "extraction_failures")]

\* lines 413-432 on [cover, stats, v]
DownloadStep(s, actions, has_cover, has_embedded, dir, cat, w) ==
    IF ~ShouldDownload(actions, has_cover, dir.album_jpg = "file", has_embedded) THEN s
    ELSE LET id == album_artist_from_dir(dir, MUSIC_EXTENSIONS)
             downloaded == fetch_itunes_artwork_bytes(id.album, id.artist, cat).ret
             asked == [s.v EXCEPT !.nqueries = @ + 1]
         IN  IF downloaded.k = "data" /\ downloaded.d # <<>>
             THEN LET r == write_cover_jpg(s.cover, downloaded.d, actions.dry_run, w)
                  IN  [cover |-> r.cover,
                       stats |-> Bump(s.stats, IF r.ok THEN "artwork_downloaded"
                                               ELSE "download_failures"),
                       v |-> Written(asked, r, w, actions.dry_run)]
             ELSE [cover |-> s.cover, stats |-> Bump(s.stats, "download_failures"), v |-> asked]

(***************************************************************************)
(* Actions.                                                                *)
(***************************************************************************)
\* The entries of a directory never change, so what the classifier and the probe
\* compute for it is computed once per listing.
AlbumDirOf == [l \in 1..Len(Listings) |-> is_album_dir(Listings[l], MUSIC_EXTENSIONS)]
ProbeOf ==
    [l \in 1..Len(Listings) |-> pick_source_with_embedded_art(Listings[l], MUSIC_EXTENSIONS)]

\* the user runs the program: the first time with any command line, then again
\* with the same action flags and without --dry-run
Invoke ==
    /\ \/ pc = "shell"
       \/ pc = "done" /\ run < MaxRuns
    /\ \E a \in Args :
         /\ pc = "done" =>
              a = [argv EXCEPT !.dry_run = FALSE]
         /\ argv' = a
    /\ run' = run + 1
    /\ prev' = IF pc = "done"
               THEN [run |-> run, argv |-> argv, stats |-> stats, visit |-> visit, pc |-> pc]
               ELSE prev
    /\ pc' = "main"
    /\ exit_code' = -1
    /\ idx' = 0
    /\ stats' = ZeroStats
    /\ missing_both' = <<>>
    /\ printed' = NoPrint
    /\ fs0' = fs
    /\ visit' = [d \in Dirs |-> NoVisit]
    /\ UNCHANGED <<fs, catalogOf, sel, probe>>

\* parse_args and main up to the call of process_album_dirs; root_is_dir is
\* whether the positional argument names an existing directory
Main ==
    /\ pc = "main"
    /\ \E root_is_dir \in BOOLEAN :
         IF ~(argv.scan_missing_cover \/ argv.extract \/ argv.report_missing_artwork
              \/ argv.download_missing_artwork)
         THEN pc' = "usage" /\ exit_code' = 2 /\ idx' = idx
         ELSE IF ~root_is_dir
         THEN pc' = "badroot" /\ exit_code' = 1 /\ idx' = idx
         ELSE pc' = "walking" /\ exit_code' = exit_code /\ idx' = 1
    /\ UNCHANGED <<fs, catalogOf, argv, stats, missing_both, printed, run, fs0, visit,
                   prev, sel, probe>>

\* iter_album_dirs passes over a directory that is_album_dir rejects
SkipDir ==
    /\ pc = "walking"
    /\ idx <= NumDirs
    /\ ~AlbumDirOf[fs[idx].listing]
    /\ idx' = idx + 1
    /\ visit' = [visit EXCEPT ![idx].seen = "skipped"]
    /\ UNCHANGED <<fs, catalogOf, argv, pc, exit_code, stats, missing_both, printed, run,
                   fs0, prev, sel, probe>>

\* one pass of the loop of process_album_dirs (lines 375-432); w is what
\* write_bytes does if it is called, c the catalog the query meets if one is made
VisitDir ==
    /\ pc = "walking"
    /\ idx <= NumDirs
    /\ AlbumDirOf[fs[idx].listing]
    /\ \E dir \in {PathOf(idx, fs[idx])} :
       \E has_cover \in {HasCover(dir)} :
       \E stats1 \in {Bump(Bump(stats, "album_dirs_scanned"),
                           IF has_cover THEN "album_dirs_with_cover_jpg"
                           ELSE "album_dirs_missing_cover_jpg")} :
       \E printed1 \in {IF ~has_cover /\ argv.scan_missing_cover
                        THEN [printed EXCEPT !.scan = Append(@, idx)] ELSE printed} :
       \E embedded_source \in {IF NeedsProbe(argv)
                               THEN ProbeOf[fs[idx].listing]
                               ELSE [k |-> "none", f |-> NoEntry]} :
         IF embedded_source.k = "raise"
         THEN \* the exception leaves process_album_dirs and main
              /\ pc' = "aborted"
              /\ exit_code' = 1
              /\ stats' = stats1
              /\ printed' = printed1
              /\ visit' = [visit EXCEPT ![idx].seen = "crashed"]
              /\ UNCHANGED <<fs, catalogOf, idx, missing_both>>
         ELSE \E embedded_data \in {IF embedded_source.k = "file"
                                    THEN extract_embedded_image_bytes(embedded_source.f.audio)
                                    ELSE RetNone} :
              \E has_embedded \in {HasEmbedded(embedded_source, embedded_data)} :
              \E asks \in {ShouldDownload(argv, has_cover, dir.album_jpg = "file",
                                          has_embedded)} :
              \E w \in (IF argv.dry_run THEN {"ok"} ELSE WriteOutcomes),
                 c \in (IF ~asks THEN {catalogOf[idx]}
                        ELSE IF catalogOf[idx] = 0 THEN 1..Len(Catalogs)
                        ELSE {catalogOf[idx]}) :
              \E s0 \in {[cover |-> dir.cover, stats |-> stats1,
                          v |-> [visit[idx] EXCEPT !.seen = IF has_cover THEN "with_cover"
                                                            ELSE "missing_cover"]]} :
              \E s1 \in {ExtractStep(s0, argv, has_cover, embedded_data, w)} :
              \E s2 \in {DownloadStep(s1, argv, has_cover, has_embedded, dir,
                                      IF c = 0 THEN CatalogDown ELSE Catalogs[c], w)} :
                /\ fs' = [fs EXCEPT ![idx].cover = s2.cover]
                /\ catalogOf' = [catalogOf EXCEPT ![idx] = c]
                /\ stats' = s2.stats
                /\ visit' = [visit EXCEPT ![idx] = s2.v]
                /\ missing_both' = IF ReportsMissing(argv, has_cover, has_embedded)
                                   THEN Append(missing_both, idx) ELSE missing_both
                /\ printed' = printed1
                /\ idx' = idx + 1
                /\ UNCHANGED <<pc, exit_code>>
    /\ UNCHANGED <<argv, run, fs0, prev, sel, probe>>

\* lines 434-453: the listing and the summary, then return 0
Report ==
    /\ pc = "walking"
    /\ idx > NumDirs
    /\ printed' = [printed EXCEPT !.listed = argv.report_missing_artwork,
                                  !.listing = IF argv.report_missing_artwork
                                              THEN missing_both ELSE <<>>,
                                  !.summary = TRUE]
    /\ pc' = "done"
    /\ exit_code' = 0
    /\ UNCHANGED <<fs, catalogOf, argv, idx, stats, missing_both, run, fs0, visit, prev,
                   sel, probe>>

Init ==
    /\ fs \in [Dirs -> DirStates]
    /\ catalogOf = [d \in Dirs |-> 0]
    /\ argv = NoArgs
    /\ pc = "shell"
    /\ exit_code = -1
    /\ idx = 0
    /\ stats = ZeroStats
    /\ missing_both = <<>>
    /\ printed = NoPrint
    /\ run = 0
    /\ fs0 = fs
    /\ visit = [d \in Dirs |-> NoVisit]
    /\ prev = NoPrev
    /\ sel = NoSel
    /\ probe = NoProbe

Next == Invoke \/ Main \/ SkipDir \/ VisitDir \/ Report

Spec == Init /\ [][Next]_vars

(***************************************************************************)
(* The catalog client alone: fetch_itunes_artwork_bytes on every query and *)
(* result list drawn from small sets.                                      *)
(***************************************************************************)
QueryAlbums == {<<>>, <<" ">>, <<"a">>, <<"A", " ">>, <<"b">>}
QueryArtists == {<<>>, <<"a">>, <<" ", "B">>}

\* what a result item may hold besides its URL
ItemBodies ==
    [dict : {TRUE}, hasUrl : BOOLEAN, collectionName : {<<"A", "b">>, <<"b", " ">>},
     artistName : {<<"a", "B">>, <<>>}]
      \cup {[dict |-> FALSE, hasUrl |-> FALSE, collectionName |-> <<>>, artistName |-> <<>>]}

\* the URL of the i-th result
UrlAt(i) ==
    Url100(CASE i = 1 -> "r1" [] i = 2 -> "r2" [] i = 3 -> "r3" [] i = 4 -> "r4"
             [] OTHER -> "r")

\* result lists: item i carries UrlAt(i) or no URL
ResultLists ==
    UNION { { [i \in 1..n |-> [dict |-> b[i].dict,
                               url |-> IF b[i].hasUrl THEN UrlAt(i) ELSE <<>>,
                               collectionName |-> b[i].collectionName,
                               artistName |-> b[i].artistName]] :
                b \in [1..n -> ItemBodies] } : n \in 0..MaxResults }

\* the image server answers every high-resolution URL with an image
ServerFor(results) ==
    [u \in {HighRes(results[i].url) : i \in {j \in 1..Len(results) : results[j].url # <<>>}}
       |-> Jpeg1]

IdleWalk ==
    /\ fs = [d \in Dirs |-> [cover |-> NoCover, album_jpg |-> "absent", listing |-> 1]]
    /\ catalogOf = [d \in Dirs |-> 0]
    /\ argv = NoArgs
    /\ pc = "off"
    /\ exit_code = -1
    /\ idx = 0
    /\ stats = ZeroStats
    /\ missing_both = <<>>
    /\ printed = NoPrint
    /\ run = 0
    /\ fs0 = fs
    /\ visit = [d \in Dirs |-> NoVisit]
    /\ prev = NoPrev

InitSel ==
    /\ IdleWalk
    /\ probe = NoProbe
    /\ \E album \in QueryAlbums, artist \in QueryArtists, results \in ResultLists,
          payload \in {"fail", "list", "nolist"} :
         sel = [phase |-> payload, album |-> album, artist |-> artist, results |-> results,
                chosen |-> <<>>, reqs |-> <<>>]

Fetch ==
    /\ sel.phase \in {"fail", "list", "nolist"}
    /\ \E r \in {fetch_itunes_artwork_bytes(sel.album, sel.artist,
                   [search |-> IF sel.phase = "fail" THEN "fail" ELSE "ok",
                    isList |-> sel.phase = "list",
                    results |-> sel.results,
                    get |-> ServerFor(sel.results)])} :
         sel' = [sel EXCEPT !.phase = IF sel.phase = "list" THEN "selected" ELSE "no results",
                            !.chosen = r.chosen, !.reqs = r.reqs]
    /\ UNCHANGED <<walkVars, probe>>

NextSel == Fetch

SpecSel == InitSel /\ [][NextSel]_vars

(***************************************************************************)
(* The probe alone: one directory's files listed in two orders.            *)
(***************************************************************************)
ProbeFiles ==
    { Entry(<<"a", ".", "m", "p", "3">>, AudioApic(Jpeg1)),
      Entry(<<"A", ".", "m", "p", "3">>, AudioCovr(Png2)),
      Entry(<<"B", ".", "f", "l", "a", "c">>, AudioFlac(Gif3)),
      Entry(<<"b", ".", "o", "g", "g">>, AudioNoArt) }

\* every order in which a set of entries can be listed
OrdersOf(S) ==
    {l \in [1..Cardinality(S) -> S] : \A i, j \in 1..Cardinality(S) : l[i] = l[j] => i = j}

ListingsOfProbe ==
    UNION {OrdersOf(S) : S \in {T \in SUBSET ProbeFiles : Cardinality(T) <= MaxListing}}

Range(l) == {l[i] : i \in 1..Len(l)}

InitProbe ==
    /\ IdleWalk
    /\ sel = NoSel
    /\ \E l \in ListingsOfProbe :
         probe = [phase |-> "listed", listing1 |-> l, listing2 |-> l,
                  pick1 |-> NoEntry, pick2 |-> NoEntry]

\* the probe runs on the directory as listed, and on the same directory listed anew
Probe ==
    /\ probe.phase = "listed"
    /\ \E l2 \in OrdersOf(Range(probe.listing1)) :
         probe' = [phase |-> "probed", listing1 |-> probe.listing1, listing2 |-> l2,
                   pick1 |-> pick_source_with_embedded_art(probe.listing1, MUSIC_EXTENSIONS).f,
                   pick2 |-> pick_source_with_embedded_art(l2, MUSIC_EXTENSIONS).f]
    /\ UNCHANGED <<walkVars, sel>>

NextProbe == Probe

SpecProbe == InitProbe /\ [][NextProbe]_vars

(***************************************************************************)
(* Properties.                                                             *)
(***************************************************************************)
WalkOrder == [i \in 1..NumDirs |-> i]

\* the loop body ran to its end in directory d in this invocation
Visited(d) == visit[d].seen \in {"with_cover", "missing_cover"}

\* some audio file of the listing, read on its own, yields bytes that pass the sniffer
UsableArtIn(listing) ==
    \E i \in 1..Len(listing) :
       /\ IsAudioFile(listing[i], MUSIC_EXTENSIONS)
       /\ LET data == extract_embedded_image_bytes(listing[i].audio)
          IN  data.k = "data" /\ looks_like_image(data.d)
UsableArtOf == [l \in 1..Len(Listings) |-> UsableArtIn(Listings[l])]

\* cover.jpg was a regular file in d when this invocation started
HadCover(d) == fs0[d].cover.k = "file"

\* C1: in a run with --dry-run, whatever the action flags, the library and the
\* tag and catalog outcomes, the files under the root and their contents stay as
\* they were when the run started.
C1_DryRunWritesNothing ==
    argv.dry_run => /\ fs = fs0
                    /\ \A d \in Dirs : visit[d].nwrites = 0

\* a finished dry run that counted an extraction and a download
C1_Witness ==
    /\ argv.dry_run
    /\ pc = "done"
    /\ stats.covers_extracted > 0
    /\ stats.artwork_downloaded > 0
    /\ \E d \in Dirs : visit[d].dry_writes > 0

\* C2: when a run with --extract and without --dry-run wrote cover.jpg in a
\* directory, the next such run counts that directory as having cover.jpg,
\* writes nothing there, and leaves cover.jpg's content as the first run left it.
C2_ExtractIdempotent ==
    (run >= 2 /\ prev.argv.extract /\ ~prev.argv.dry_run /\ argv.extract) =>
        \A d \in Dirs :
            (prev.visit[d].wrote = "ok" /\ visit[d].seen # "unvisited") =>
                /\ visit[d].seen = "with_cover"
                /\ visit[d].nwrites = 0
                /\ visit[d].dry_writes = 0
                /\ fs[d].cover = fs0[d].cover
                /\ stats.album_dirs_with_cover_jpg >= 1

\* the second --extract run is over and passed a directory the first one wrote
C2_Witness ==
    /\ run = 2
    /\ pc = "done"
    /\ prev.argv.extract /\ ~prev.argv.dry_run
    /\ prev.stats.covers_extracted > 0
    /\ \E d \in Dirs : /\ prev.visit[d].wrote = "ok"
                      /\ prev.visit[d].seen = "missing_cover"
                      /\ visit[d].seen = "with_cover"
                      /\ fs[d].cover = CoverFile(Jpeg1)

\* C3: the file the probe picks is the same for every order in which the
\* directory's entries are listed, also when two names differ only in case, and
\* no file with usable art sorts before it by case-insensitive name.
C3_ProbeIndependentOfListingOrder ==
    probe.phase = "probed" =>
        /\ probe.pick1 = probe.pick2
        /\ \A i \in 1..Len(probe.listing1) :
             LET e == probe.listing1[i]
                 data == extract_embedded_image_bytes(e.audio)
             IN  (IsAudioFile(e, MUSIC_EXTENSIONS) /\ data.k = "data"
                  /\ looks_like_image(data.d))
                     => ~StrLess(Lower(e.name), Lower(probe.pick1.name))

\* C4: in a directory whose visit completed, the catalog is queried exactly when
\* download is enabled, cover.jpg and album.jpg are no regular files and the
\* probe found nothing; it is queried at most once, nowhere else, and the two
\* download counters together count the queries.
C4_CatalogQueriedIff ==
    /\ \A d \in Dirs :
         /\ visit[d].nqueries \in {0, 1}
         /\ ~Visited(d) => visit[d].nqueries = 0
         /\ Visited(d) =>
              ((visit[d].nqueries = 1) <=>
                  /\ argv.download_missing_artwork
                  /\ ~HadCover(d)
                  /\ fs0[d].album_jpg # "file"
                  /\ ~UsableArtOf[fs0[d].listing])
    /\ stats.artwork_downloaded + stats.download_failures
          = Cardinality({d \in Dirs : visit[d].nqueries = 1})

\* a finished download run that queried for one directory and, because of its
\* album.jpg, not for another without cover or embedded art
C4_Witness ==
    /\ pc = "done"
    /\ argv.download_missing_artwork
    /\ \E d, e \in Dirs :
         /\ visit[d].nqueries = 1
         /\ Visited(e) /\ visit[e].nqueries = 0
         /\ ~HadCover(e) /\ ~UsableArtOf[fs0[e].listing] /\ fs0[e].album_jpg = "file"

\* an album directory that lacked cover.jpg when the run started and holds no
\* audio file with a usable embedded image
LacksAllArtwork(d) ==
    /\ AlbumDirOf[fs0[d].listing]
    /\ ~HadCover(d)
    /\ ~UsableArtOf[fs0[d].listing]

\* C5: with --report-missing-artwork the list collected, and printed at the end,
\* holds exactly the album directories that lacked cover.jpg and have no usable
\* embedded image, in walk order, whatever the other flags and whatever
\* extraction and download did; without the flag nothing is listed.
C5_ReportedIffNoArtwork ==
    /\ (pc \in {"walking", "done"} /\ argv.report_missing_artwork) =>
          missing_both = SelectSeq(SubSeq(WalkOrder, 1, idx - 1), LacksAllArtwork)
    /\ (pc = "done" /\ argv.report_missing_artwork) =>
          (printed.listed /\ printed.listing = SelectSeq(WalkOrder, LacksAllArtwork))
    /\ ~argv.report_missing_artwork => (~printed.listed /\ missing_both = <<>>)

\* a finished run with report, extract and download that listed a directory whose
\* download was written, and did not list one whose extraction failed on the write
C5_Witness ==
    /\ pc = "done"
    /\ argv.report_missing_artwork /\ argv.extract /\ argv.download_missing_artwork
    /\ ~argv.dry_run
    /\ \E d, e \in Dirs :
         /\ printed.listing = <<d>>
         /\ visit[d].wrote = "ok" /\ stats.artwork_downloaded = 1
         /\ Visited(e) /\ ~HadCover(e) /\ visit[e].wrote = "open_fail"

\* C6: a run without --dry-run whose writes all succeed ends with the counters
\* of the --dry-run run made just before it with the same action flags on the
\* same library and catalog.
C6_DryRunCountsAsReal ==
    (/\ run >= 2
     /\ pc = "done"
     /\ prev.argv.dry_run
     /\ ~argv.dry_run
     /\ \A d \in Dirs : visit[d].wrote \in {"none", "ok"}) =>
        stats = prev.stats

\* such a pair of runs, with an extraction and a download written in the second
C6_Witness ==
    /\ run = 2
    /\ pc = "done"
    /\ prev.argv.dry_run /\ ~argv.dry_run
    /\ \A d \in Dirs : visit[d].wrote = "ok"
    /\ stats.covers_extracted = 1 /\ stats.artwork_downloaded = 1
    /\ prev.stats.covers_extracted = 1 /\ prev.stats.artwork_downloaded = 1

\* C7: no failure of the tag library on a file ends the run: a run that has
\* stopped has scanned every album directory and exits with 0.
C7_NoTagFailureAbortsTheWalk ==
    pc \in {"done", "aborted"} =>
        /\ exit_code = 0
        /\ stats.album_dirs_scanned = Cardinality({d \in Dirs : AlbumDirOf[fs[d].listing]})

\* the claim's selection: the first result with a URL whose album name contains
\* the query album and whose artist name contains the query artist (or the query
\* artist is empty), else the first result with a URL, else none
WithUrl(results) == {i \in 1..Len(results) : results[i].dict /\ results[i].url # <<>>}
FirstOf(results, S) ==
    IF S = {} THEN <<>> ELSE results[CHOOSE i \in S : \A j \in S : i <= j].url

ClaimedMatches(album, artist, results) ==
    {i \in WithUrl(results) :
        /\ Contains(Lower(results[i].collectionName), Lower(album))
        /\ (artist = <<>> \/ Contains(Lower(results[i].artistName), Lower(artist)))}

ClaimedUrl(album, artist, results) ==
    IF ClaimedMatches(album, artist, results) # {}
    THEN FirstOf(results, ClaimedMatches(album, artist, results))
    ELSE FirstOf(results, WithUrl(results))

\* C8 as claimed: for every query, an empty album included, the URL chosen is
\* the claim's selection, and no GET is issued when no result has a URL.
C8_SelectionAsClaimed ==
    sel.phase = "selected" =>
        /\ sel.chosen = ClaimedUrl(sel.album, sel.artist, sel.results)
        /\ (WithUrl(sel.results) = {} => Len(sel.reqs) = 1)

\* the same with the query trimmed and a query album that trims to nothing
\* matching no result
TrimmedMatches(album, artist, results) ==
    {i \in WithUrl(results) :
        /\ Strip(album) # <<>>
        /\ Contains(Lower(results[i].collectionName), Lower(Strip(album)))
        /\ (Strip(artist) = <<>>
            \/ Contains(Lower(results[i].artistName), Lower(Strip(artist))))}

TrimmedUrl(album, artist, results) ==
    IF TrimmedMatches(album, artist, results) # {}
    THEN FirstOf(results, TrimmedMatches(album, artist, results))
    ELSE FirstOf(results, WithUrl(results))

\* C8 amended: with the query album and artist trimmed, and the album not empty
\* after trimming, the URL chosen is that of the first result with a URL whose
\* album name contains the album and whose artist name contains the artist (or
\* the artist is empty); when the album is empty or no result matches, it is the
\* first result with a URL; when no result has a URL, nothing is chosen and the
\* search is the only request.
C8_SelectionTrimmed ==
    sel.phase = "selected" =>
        /\ sel.chosen = TrimmedUrl(sel.album, sel.artist, sel.results)
        /\ (WithUrl(sel.results) = {} => (sel.chosen = <<>> /\ Len(sel.reqs) = 1))
        /\ (WithUrl(sel.results) # {} =>
               /\ Len(sel.reqs) = 2
               /\ sel.reqs[2].url = HighRes(sel.chosen))

\* a matching result was chosen over an earlier result with a URL
C8_Witness ==
    /\ sel.phase = "selected"
    /\ Len(sel.results) = 2
    /\ sel.results[1].url # <<>>
    /\ TrimmedMatches(sel.album, sel.artist, sel.results) = {2}
    /\ sel.chosen = sel.results[2].url

\* C9: in one run write_cover_jpg is called at most once for a directory,
\* whatever the flags, and never for one where cover.jpg was a regular file when
\* the run started: that file is left as it was.
C9_WrittenAtMostOnce ==
    \A d \in Dirs :
        /\ visit[d].nwrites + visit[d].dry_writes <= 1
        /\ HadCover(d) => /\ visit[d].nwrites = 0
                          /\ visit[d].dry_writes = 0
                          /\ fs[d].cover = fs0[d].cover

\* a finished run with --extract and --download-missing-artwork that wrote an
\* extracted cover in one directory and a downloaded one in another
C9_Witness ==
    /\ pc = "done"
    /\ argv.extract /\ argv.download_missing_artwork /\ ~argv.dry_run
    /\ stats.covers_extracted >= 1 /\ stats.artwork_downloaded >= 1
    /\ \E d, e \in Dirs : /\ d # e
                         /\ visit[d].nwrites = 1 /\ visit[d].nqueries = 0
                         /\ visit[e].nwrites = 1 /\ visit[e].nqueries = 1

\* C10: scanned = with cover + missing cover at every point of the run; between
\* directories and at the end, with --extract, extracted + failures = missing
\* cover, and without --extract both extraction counters are 0; the directories
\* counted with cover are those that had one.
C10_CountersConserved ==
    /\ stats.album_dirs_scanned
          = stats.album_dirs_with_cover_jpg + stats.album_dirs_missing_cover_jpg
    /\ pc \in {"walking", "done"} =>
          /\ stats.album_dirs_scanned = Cardinality({d \in Dirs : Visited(d)})
          /\ stats.album_dirs_with_cover_jpg
                = Cardinality({d \in Dirs : Visited(d) /\ HadCover(d)})
          /\ stats.covers_extracted + stats.extraction_failures
                = IF argv.extract THEN stats.album_dirs_missing_cover_jpg ELSE 0

\* a finished --extract run over a directory with a cover, one whose write
\* failed or one whose write succeeded
C10_Witness ==
    /\ pc = "done"
    /\ argv.extract /\ ~argv.dry_run
    /\ stats.album_dirs_scanned = NumDirs
    /\ stats.extraction_failures >= 1
    /\ \E d \in Dirs : visit[d].wrote \in {"open_fail", "write_fail"}
    /\ \E d \in Dirs : HadCover(d) \/ visit[d].wrote = "ok"

====
